---- MODULE Spec2Model ----
(***************************************************************************)
(* A model of filelist.py: the directory scan, the manifest's JSON         *)
(* persistence, the comparison of two manifests and the generated archive  *)
(* script.                                                                 *)
(*                                                                         *)
(* A Python str is a sequence of characters; a character is a one-element  *)
(* TLA+ string, except the two code points named below.  A Python value    *)
(* read from JSON is a record [ty, v] with ty one of "int", "str", "dict". *)
(* A manifest (Dict[str, int]) is a function from str to Nat.              *)
(***************************************************************************)
EXTENDS Integers, Sequences, FiniteSets, TLC

VARIABLES
    disk,         \* the manifest files, by name
    file_list,    \* scan_directory's dict, and the manifest a dump writes
    loaded,       \* the outcome of the last lone load_json_filelist
    console,      \* what the last operation printed
    script_file,  \* zip_different_files.py
    gen_files,    \* generate_zip_script's argument, the last time it ran
    run,          \* a run of the generated script on some host
    cmp,          \* compare_file_lists: its locals when it last returned
    after_swap,   \* the last two calls compared the same two files, swapped
    tree,         \* the directory tree that is scanned
    scan,         \* scan_directory: where its walk is
    scan_results  \* what the calls of scan_directory returned, in order

codecVars == <<disk, file_list, loaded>>

scriptVars == <<script_file, gen_files, run>>

compareVars == <<cmp, after_swap>>

scanVars == <<tree, scan, scan_results>>

vars ==
    <<disk, file_list, loaded, console, script_file, gen_files, run, cmp,
      after_swap, tree, scan, scan_results>>

----------------------------------------------------------------------------
(* Bounds of the model. *)

\* the largest number of entries of a manifest drawn as an input
MaxFiles == 2

\* the largest number of files of a scanned tree
MaxTreeFiles == 3

\* the longest path list handed to generate_zip_script as an input
MaxPaths == 3

----------------------------------------------------------------------------
(* Characters and strings. *)

\* U+DCFF: what os.fsdecode gives for the byte 0xFF of a file name that is
\* not UTF-8 (surrogateescape); a lone surrogate has no UTF-8 encoding.
Surrogate == "U+DCFF"

\* U+00E9, a character outside ASCII that UTF-8 encodes.
EAcute == "U+00E9"

Backslash == "\\"

Quote == "\""

IsAscii(c) == c \notin {Surrogate, EAcute}

\* str.encode('utf-8') succeeds on every character but a lone surrogate
Utf8Encodable(s) == \A i \in 1..Len(s) : s[i] # Surrogate

RECURSIVE Concat(_)
Concat(ss) == IF ss = <<>> THEN <<>> ELSE Head(ss) \o Concat(Tail(ss))

RECURSIVE SetToSeq(_)
SetToSeq(S) ==
    IF S = {} THEN <<>>
    ELSE LET x == CHOOSE y \in S : TRUE IN <<x>> \o SetToSeq(S \ {x})

RECURSIVE Sum(_, _)
Sum(f, S) ==
    IF S = {} THEN 0
    ELSE LET x == CHOOSE y \in S : TRUE IN f[x] + Sum(f, S \ {x})

----------------------------------------------------------------------------
(* json: strings.  The encoder escapes the quote and the backslash; with   *)
(* ensure_ascii it also writes every character outside ASCII as \uXXXX.    *)

HexOf(c) ==
    IF c = Surrogate THEN <<"d", "c", "f", "f">> ELSE <<"0", "0", "e", "9">>

\* EscapeChar with the quote's escape left out
EscapeCharNoQuote(c, ensure_ascii) ==
    IF c = Backslash THEN <<Backslash, Backslash>>
    ELSE IF ensure_ascii /\ ~IsAscii(c) THEN <<Backslash, "u">> \o HexOf(c)
    ELSE <<c>>

EscapeChar(c, ensure_ascii) ==
    IF c = Quote THEN <<Backslash, Quote>>
    ELSE IF c = Backslash THEN <<Backslash, Backslash>>
    ELSE IF ensure_ascii /\ ~IsAscii(c) THEN <<Backslash, "u">> \o HexOf(c)
    ELSE <<c>>

\* the characters the encoder's pattern matches
NeedsEscape(c, ensure_ascii) ==
    c = Quote \/ c = Backslash \/ (ensure_ascii /\ ~IsAscii(c))

\* json.encoder's encode_basestring and encode_basestring_ascii, without
\* the quotes around the result: the pattern's matches are replaced
encode_basestring(s, ensure_ascii) ==
    IF \A i \in 1..Len(s) : ~NeedsEscape(s[i], ensure_ascii) THEN s
    ELSE Concat([i \in 1..Len(s) |-> EscapeChar(s[i], ensure_ascii)])

\* json.decoder's scanstring on the text between two quotes: the run of
\* characters before the next backslash is copied, the escape is decoded
RECURSIVE scanstring(_)
scanstring(e) ==
    LET esc == {i \in 1..Len(e) : e[i] = Backslash}
        j == CHOOSE i \in esc : \A k \in esc : i <= k
    IN  IF esc = {} THEN e
        ELSE IF j + 5 <= Len(e) /\ e[j + 1] = "u"
             THEN SubSeq(e, 1, j - 1)
                  \o <<(IF SubSeq(e, j + 2, j + 5) = HexOf(Surrogate)
                        THEN Surrogate ELSE EAcute)>>
                  \o scanstring(SubSeq(e, j + 6, Len(e)))
        ELSE SubSeq(e, 1, j - 1) \o <<e[j + 1]>>
             \o scanstring(SubSeq(e, j + 2, Len(e)))

----------------------------------------------------------------------------
(* json: documents, as the sequence of tokens written to or read from a    *)
(* file (white space is left out).  A string token carries the escaped     *)
(* text between its quotes, an integer token its value.                    *)

Tok(t) == [t |-> t, s |-> <<>>, v |-> 0]

StrTok(s, ensure_ascii) ==
    [t |-> "str", s |-> encode_basestring(s, ensure_ascii), v |-> 0]

IntTok(n) == [t |-> "int", s |-> <<>>, v |-> n]

\* Python values: keys is a dict's insertion order, which decides the order
\* it is written in and nothing else (dict equality ignores it).
PyNone == [ty |-> "none", v |-> 0, keys |-> <<>>]

PyInt(n) == [ty |-> "int", v |-> n, keys |-> <<>>]

PyStr(s) == [ty |-> "str", v |-> s, keys |-> <<>>]

PyDict(f, order) == [ty |-> "dict", v |-> f, keys |-> order]

\* a manifest as the Python dict of ints it is
ManifestValue(m) ==
    PyDict([k \in DOMAIN m |-> PyInt(m[k])], SetToSeq(DOMAIN m))

\* val is a dict whose entries are exactly those of the manifest m
IsManifest(val, m) ==
    /\ val.ty = "dict"
    /\ DOMAIN val.v = DOMAIN m
    /\ \A k \in DOMAIN m : val.v[k].ty = "int" /\ val.v[k].v = m[k]

RECURSIVE EncodeValue(_, _)
EncodeMembers(f, keys, ensure_ascii) ==
    Concat([i \in 1..Len(keys) |->
              (IF i > 1 THEN <<Tok(",")>> ELSE <<>>)
              \o <<StrTok(keys[i], ensure_ascii), Tok(":")>>
              \o EncodeValue(f[keys[i]], ensure_ascii)])

\* json.JSONEncoder.iterencode: the chunks of one value, in order
EncodeValue(val, ensure_ascii) ==
    IF val.ty = "int" THEN <<IntTok(val.v)>>
    ELSE IF val.ty = "str" THEN <<StrTok(val.v, ensure_ascii)>>
    ELSE <<Tok("{")>>
         \o EncodeMembers(val.v, val.keys, ensure_ascii)
         \o <<Tok("}")>>

ParseFail == [ok |-> FALSE, val |-> PyNone, next |-> 0]

RECURSIVE ParseValue(_, _)
RECURSIVE ParseMembers(_, _, _, _)
\* the members of an object from token i on, added to acc (a repeated key
\* keeps its last value)
ParseMembers(toks, i, acc, order) ==
    IF i + 2 > Len(toks) \/ toks[i].t # "str" \/ toks[i + 1].t # ":"
    THEN ParseFail
    ELSE LET key == scanstring(toks[i].s)
             r == ParseValue(toks, i + 2)
             acc2 == [k \in DOMAIN acc \cup {key} |->
                        IF k = key THEN r.val ELSE acc[k]]
             order2 == IF key \in DOMAIN acc THEN order
                       ELSE Append(order, key)
         IN  IF ~r.ok \/ r.next > Len(toks) THEN ParseFail
             ELSE IF toks[r.next].t = "}"
                  THEN [ok |-> TRUE, val |-> PyDict(acc2, order2),
                        next |-> r.next + 1]
             ELSE IF toks[r.next].t = ","
                  THEN ParseMembers(toks, r.next + 1, acc2, order2)
             ELSE ParseFail

\* json.JSONDecoder.raw_decode from token i: the value and the place after
ParseValue(toks, i) ==
    IF i > Len(toks) THEN ParseFail
    ELSE IF toks[i].t = "int"
         THEN [ok |-> TRUE, val |-> PyInt(toks[i].v), next |-> i + 1]
    ELSE IF toks[i].t = "str"
         THEN [ok |-> TRUE, val |-> PyStr(scanstring(toks[i].s)), next |-> i + 1]
    ELSE IF toks[i].t = "{"
         THEN IF i + 1 <= Len(toks) /\ toks[i + 1].t = "}"
              THEN [ok |-> TRUE, val |-> PyDict(<<>>, <<>>), next |-> i + 2]
              ELSE ParseMembers(toks, i + 1, <<>>, <<>>)
    ELSE ParseFail

\* json.load: the whole text is one value, or JSONDecodeError
json_load(toks) ==
    LET r == ParseValue(toks, 1)
    IN  IF r.ok /\ r.next = Len(toks) + 1
        THEN [ok |-> TRUE, val |-> r.val]
        ELSE [ok |-> FALSE, val |-> PyNone]

\* f.write(chunk) on a file opened with encoding='utf-8' raises
\* UnicodeEncodeError on the first chunk it cannot encode; the chunks
\* before it are in the file when it is closed.
RECURSIVE WrittenPrefix(_)
WrittenPrefix(toks) ==
    IF toks = <<>> THEN <<>>
    ELSE IF ~Utf8Encodable(Head(toks).s) THEN <<>>
    ELSE <<Head(toks)>> \o WrittenPrefix(Tail(toks))

----------------------------------------------------------------------------
(* The payload of the archive script: json.dumps of the path list, its     *)
(* UTF-8 bytes, zlib.compress, base64.b64encode, and the inverse steps the *)
(* script takes.  Text is a sequence of characters, bytes a sequence of    *)
(* numbers in 0..255.                                                      *)

CodePoint ==
    ("a" :> 97) @@ ("b" :> 98) @@ ("c" :> 99) @@ ("d" :> 100) @@ ("e" :> 101)
    @@ ("f" :> 102) @@ ("i" :> 105) @@ ("l" :> 108) @@ ("n" :> 110)
    @@ ("q" :> 113) @@ ("s" :> 115) @@ ("u" :> 117) @@ ("x" :> 120)
    @@ ("y" :> 121) @@ ("z" :> 122) @@ ("0" :> 48) @@ ("9" :> 57)
    @@ ("/" :> 47) @@ (Backslash :> 92) @@ (Quote :> 34) @@ ("[" :> 91)
    @@ ("]" :> 93) @@ ("," :> 44) @@ (" " :> 32)
    @@ (EAcute :> 233) @@ (Surrogate :> 56575)

\* Python's order on str: by code point, a proper prefix first
RECURSIVE StrLess(_, _)
StrLess(s, t) ==
    IF t = <<>> THEN FALSE
    ELSE IF s = <<>> THEN TRUE
    ELSE IF Head(s) = Head(t) THEN StrLess(Tail(s), Tail(t))
    ELSE CodePoint[Head(s)] < CodePoint[Head(t)]

\* sorted(S) for a set S of str
RECURSIVE sorted(_)
sorted(S) ==
    IF S = {} THEN <<>>
    ELSE LET lo == CHOOSE x \in S : \A y \in S \ {x} : StrLess(x, y)
         IN  <<lo>> \o sorted(S \ {lo})

\* json.dumps(files) for a list of str (ensure_ascii is the default, True)
json_dumps(files) ==
    <<"[">>
    \o Concat([i \in 1..Len(files) |->
                 (IF i > 1 THEN <<",", " ">> ELSE <<>>)
                 \o <<Quote>> \o encode_basestring(files[i], TRUE) \o <<Quote>>])
    \o <<"]">>

\* the index of the quote that closes the string opened before position i
RECURSIVE ClosingQuote(_, _)
ClosingQuote(text, i) ==
    IF i > Len(text) THEN 0
    ELSE IF text[i] = Quote THEN i
    ELSE IF text[i] = Backslash THEN ClosingQuote(text, i + 2)
    ELSE ClosingQuote(text, i + 1)

\* the elements of a JSON array of strings from position i on; <<FALSE>>
\* stands for JSONDecodeError
RECURSIVE ParseElements(_, _, _)
ParseElements(text, i, acc) ==
    IF i > Len(text) \/ text[i] # Quote THEN <<FALSE>>
    ELSE LET j == ClosingQuote(text, i + 1)
             acc2 == Append(acc, scanstring(SubSeq(text, i + 1, j - 1)))
         IN  IF j = 0 \/ j + 1 > Len(text) THEN <<FALSE>>
             ELSE IF text[j + 1] = "]"
                  THEN IF j + 1 = Len(text) THEN <<TRUE, acc2>> ELSE <<FALSE>>
             ELSE IF text[j + 1] = "," /\ j + 2 <= Len(text) /\ text[j + 2] = " "
                  THEN ParseElements(text, j + 3, acc2)
             ELSE <<FALSE>>

\* json.loads(text) where text is an array of strings
json_loads(text) ==
    IF Len(text) < 2 \/ text[1] # "[" THEN <<FALSE>>
    ELSE IF text[2] = "]" THEN (IF Len(text) = 2 THEN <<TRUE, <<>>>> ELSE <<FALSE>>)
    ELSE ParseElements(text, 2, <<>>)

\* str.encode('utf-8') of ASCII text: one byte a character
utf8_encode(text) == [i \in 1..Len(text) |-> CodePoint[text[i]]]

\* bytes.decode('utf-8') of ASCII bytes
utf8_decode(bytes) ==
    [i \in 1..Len(bytes) |->
       CHOOSE c \in DOMAIN CodePoint : CodePoint[c] = bytes[i]]

\* zlib.adler32's two sums after the bytes from position i on, from the
\* sums a and b before them
RECURSIVE AdlerSums(_, _, _, _)
AdlerSums(bytes, i, a, b) ==
    IF i > Len(bytes) THEN <<a, b>>
    ELSE AdlerSums(bytes, i + 1, (a + bytes[i]) % 65521,
                   (b + ((a + bytes[i]) % 65521)) % 65521)

\* zlib.adler32, as the four bytes of the stream's trailer
adler32(bytes) ==
    LET ab == AdlerSums(bytes, 1, 1, 0)
    IN  << ab[2] \div 256, ab[2] % 256, ab[1] \div 256, ab[1] % 256 >>

\* zlib.compress(data): the zlib container (two header bytes, the deflate
\* body, the Adler-32 of the data).  The deflate body is modelled as one
\* stored block (final-block byte, LEN, NLEN, the data) rather than the
\* Huffman-coded block the default level writes: both are bodies that
\* zlib.decompress inflates to data.
zlib_compress(data) ==
    <<120, 156>>
    \o <<1, Len(data) % 256, Len(data) \div 256,
         255 - (Len(data) % 256), 255 - (Len(data) \div 256)>>
    \o data
    \o adler32(data)

\* zlib.decompress(stream): <<TRUE, data>>, or <<FALSE>> for zlib.error
zlib_decompress(stream) ==
    IF Len(stream) < 11 \/ SubSeq(stream, 1, 3) # <<120, 156, 1>> THEN <<FALSE>>
    ELSE LET n == stream[4] + 256 * stream[5]
             data == SubSeq(stream, 8, 7 + n)
         IN  IF /\ Len(stream) = n + 11
                /\ stream[6] = 255 - stream[4]
                /\ stream[7] = 255 - stream[5]
                /\ SubSeq(stream, n + 8, n + 11) = adler32(data)
             THEN <<TRUE, data>>
             ELSE <<FALSE>>

B64Alphabet ==
    << "A", "B", "C", "D", "E", "F", "G", "H", "I", "J", "K", "L", "M",
       "N", "O", "P", "Q", "R", "S", "T", "U", "V", "W", "X", "Y", "Z",
       "a", "b", "c", "d", "e", "f", "g", "h", "i", "j", "k", "l", "m",
       "n", "o", "p", "q", "r", "s", "t", "u", "v", "w", "x", "y", "z",
       "0", "1", "2", "3", "4", "5", "6", "7", "8", "9", "+", "/" >>

B64Char(n) == B64Alphabet[n + 1]

B64Index(c) == (CHOOSE i \in 1..64 : B64Alphabet[i] = c) - 1

\* base64.b64encode(bytes).decode('utf-8'): four characters for every
\* three bytes, the last group padded with "="
RECURSIVE b64encode(_)
b64encode(bytes) ==
    IF bytes = <<>> THEN <<>>
    ELSE LET b1 == bytes[1]
             b2 == IF Len(bytes) >= 2 THEN bytes[2] ELSE 0
             b3 == IF Len(bytes) >= 3 THEN bytes[3] ELSE 0
             n == b1 * 65536 + b2 * 256 + b3
         IN  << B64Char(n \div 262144), B64Char((n \div 4096) % 64),
                (IF Len(bytes) >= 2 THEN B64Char((n \div 64) % 64) ELSE "="),
                (IF Len(bytes) >= 3 THEN B64Char(n % 64) ELSE "=") >>
             \o (IF Len(bytes) > 3 THEN b64encode(SubSeq(bytes, 4, Len(bytes)))
                 ELSE <<>>)

\* base64.b64decode(text) of text that b64encode wrote
RECURSIVE b64decode(_)
b64decode(text) ==
    IF Len(text) < 4 THEN <<>>
    ELSE LET pad == IF text[4] # "=" THEN 0 ELSE IF text[3] # "=" THEN 1 ELSE 2
             i3 == IF pad = 2 THEN 0 ELSE B64Index(text[3])
             i4 == IF pad >= 1 THEN 0 ELSE B64Index(text[4])
             n == B64Index(text[1]) * 262144 + B64Index(text[2]) * 4096
                  + i3 * 64 + i4
         IN  SubSeq(<<n \div 65536, (n \div 256) % 256, n % 256>>, 1, 3 - pad)
             \o b64decode(SubSeq(text, 5, Len(text)))

\* generate_zip_script: the text of zip_b64 for the list files
EmbeddedPayload(files) == b64encode(zlib_compress(utf8_encode(json_dumps(files))))

\* the script's first three statements on its zip_b64: <<TRUE, files>>, or
\* <<FALSE>> when one of them raises
DecodePayload(zip_b64) ==
    LET z == zlib_decompress(b64decode(zip_b64))
    IN  IF ~z[1] THEN <<FALSE>> ELSE json_loads(utf8_decode(z[2]))

----------------------------------------------------------------------------
(* Files.  A file is absent, or holds the tokens written to it; writer and *)
(* mapping record who wrote it and the mapping that writer serialised.     *)

Absent == [exists |-> FALSE, toks |-> <<>>, writer |-> "none", mapping |-> <<>>]

FileOf(toks, writer, m) ==
    [exists |-> TRUE, toks |-> toks, writer |-> writer, mapping |-> m]

\* the manifests over keys with sizes in sizes and at most MaxFiles entries
Manifests(keys, sizes) ==
    UNION {[D -> sizes] : D \in {S \in SUBSET keys : Cardinality(S) <= MaxFiles}}

\* the legacy shape: the bare mapping, as json.dump writes it by default
LegacyDocument(m) == EncodeValue(ManifestValue(m), TRUE)

FilesKey == <<"f", "i", "l", "e", "s">>

SourceDirectoryKey ==
    <<"s", "o", "u", "r", "c", "e", "_", "d", "i", "r", "e", "c", "t", "o", "r", "y">>

TotalFilesKey == <<"t", "o", "t", "a", "l", "_", "f", "i", "l", "e", "s">>

TotalSizeKey == <<"t", "o", "t", "a", "l", "_", "s", "i", "z", "e">>

\* str(Path(directory).resolve()) of the scanned directory
SourceDirectory == <<"/", "r">>

\* dump_directory_to_json's output_data for the manifest m
output_data(m) ==
    PyDict([k \in {SourceDirectoryKey, TotalFilesKey, TotalSizeKey, FilesKey} |->
              IF k = SourceDirectoryKey THEN PyStr(SourceDirectory)
              ELSE IF k = TotalFilesKey THEN PyInt(Cardinality(DOMAIN m))
              ELSE IF k = TotalSizeKey THEN PyInt(Sum(m, DOMAIN m))
              ELSE ManifestValue(m)],
           <<SourceDirectoryKey, TotalFilesKey, TotalSizeKey, FilesKey>>)

NotLoaded ==
    [status |-> "none", returned |-> FALSE, files |-> PyNone, metadata |-> <<>>]

Raised(exc) ==
    [status |-> exc, returned |-> FALSE, files |-> PyNone, metadata |-> <<>>]

\* no tree, and scan_directory not called
NoTree == [root |-> "missing", sep |-> "/", files |-> {}, denied |-> {}]

ScanNotStarted ==
    [pc |-> "idle", stack |-> <<>>, pending |-> {}, warnings |-> <<>>]

ScanIdle ==
    /\ tree = NoTree
    /\ scan = ScanNotStarted
    /\ scan_results = <<>>

\* compare_file_lists before its first call
NoCompare ==
    [ran |-> FALSE, file_a |-> "", file_b |-> "",
     load_a |-> NotLoaded, load_b |-> NotLoaded,
     computed |-> FALSE, error |-> "",
     only_in_a |-> {}, only_in_b |-> {}, in_both |-> {},
     size_only_a |-> 0, size_only_b |-> 0, size_both_a |-> 0, size_both_b |-> 0,
     files_only_in_a |-> <<>>, files_only_in_b |-> <<>>, files_in_both |-> <<>>]

CompareIdle ==
    /\ cmp = NoCompare
    /\ after_swap = FALSE

\* the branch of load_json_filelist on the decoded value
SplitDocument(data) ==
    IF data.ty = "dict" /\ FilesKey \in DOMAIN data.v
    THEN [status |-> "ok", returned |-> TRUE, files |-> data.v[FilesKey],
          metadata |-> [k \in DOMAIN data.v \ {FilesKey} |-> data.v[k]]]
    ELSE [status |-> "ok", returned |-> TRUE, files |-> data, metadata |-> <<>>]

\* load_json_filelist with a decode error swallowed: an empty manifest
load_json_filelist_lenient(f) ==
    IF ~f.exists THEN Raised("FileNotFoundError")
    ELSE LET data == json_load(f.toks)
         IN  IF ~data.ok
             THEN [status |-> "ok", returned |-> TRUE,
                   files |-> PyDict(<<>>, <<>>), metadata |-> <<>>]
             ELSE SplitDocument(data.val)

\* load_json_filelist(json_path) on the file f at that path
load_json_filelist(f) ==
    IF ~f.exists THEN Raised("FileNotFoundError")
    ELSE LET data == json_load(f.toks)
         IN  IF ~data.ok THEN Raised("JSONDecodeError")
             ELSE SplitDocument(data.val)

\* what open(output_file, 'w') and json.dump(..., ensure_ascii=False) leave
DumpedFile(m) == FileOf(WrittenPrefix(EncodeValue(output_data(m), FALSE)), "dump", m)

DumpComplete(m) ==
    WrittenPrefix(EncodeValue(output_data(m), FALSE)) = EncodeValue(output_data(m), FALSE)

----------------------------------------------------------------------------
(* The archive script: generate_zip_script writes it, and a later run of   *)
(* it, on a host of its own, is the script's statements one at a time.     *)

NoScript == [exists |-> FALSE, zip_b64 |-> <<>>]

\* what generate_zip_script(files) leaves in zip_different_files.py: the
\* payload, between fixed lines of text
generate_zip_script(files) == [exists |-> TRUE, zip_b64 |-> EmbeddedPayload(files)]

\* run.pc: "idle" (not started), "loop" (in the for loop, before element i),
\* "done" (the count is printed), "decode_error" and "crashed" (an exception
\* nothing catches).  attempted and outcomes are the calls of zipf.write in
\* order and how each ended; archive is what diff_files.zip holds.
RunIdle ==
    [pc |-> "idle", files |-> <<>>, i |-> 0, compressed_successful |-> 0,
     archive |-> <<>>, attempted |-> <<>>, outcomes |-> <<>>, reported |-> -1]

ScriptIdle ==
    /\ script_file = NoScript
    /\ gen_files = <<>>
    /\ run = RunIdle

\* how zipf.write(file) can end on the host: the file is added,
\* FileNotFoundError, or another exception (PermissionError for one)
WriteOutcomes == {"added", "FileNotFoundError", "OtherError"}

\* the script from its first statement to the for loop
RunStarted(zip_b64) ==
    LET d == DecodePayload(zip_b64)
    IN  IF d[1]
        THEN [RunIdle EXCEPT !.pc = "loop", !.files = d[2], !.i = 1]
        ELSE [RunIdle EXCEPT !.pc = "decode_error"]

\* ZipWriteStep without the except clause: FileNotFoundError ends the run
ZipWriteStepNoExcept(r, outcome) ==
    LET r1 == [r EXCEPT !.attempted = Append(@, r.files[r.i]),
                        !.outcomes = Append(@, outcome)]
    IN  IF outcome = "added"
        THEN [r1 EXCEPT !.archive = Append(@, r.files[r.i]),
                        !.compressed_successful = @ + 1,
                        !.i = @ + 1]
        ELSE [r1 EXCEPT !.pc = "crashed"]

\* one pass of the loop body on files[i], zipf.write ending as outcome
ZipWriteStep(r, outcome) ==
    LET r1 == [r EXCEPT !.attempted = Append(@, r.files[r.i]),
                        !.outcomes = Append(@, outcome)]
    IN  IF outcome = "added"
        THEN [r1 EXCEPT !.archive = Append(@, r.files[r.i]),
                        !.compressed_successful = @ + 1,
                        !.i = @ + 1]
        ELSE IF outcome = "FileNotFoundError"
        THEN [r1 EXCEPT !.i = @ + 1]
        ELSE [r1 EXCEPT !.pc = "crashed"]

PathSamples ==
    { <<"a", "/", "b">>, <<"c">>, <<"q", Quote, Backslash>>,
      <<"n", EAcute, Surrogate>> }

PathLists == UNION {[1..n -> PathSamples] : n \in 0..MaxPaths}

GenerateZipScript(files) ==
    /\ run.pc = "idle"
    /\ script_file' = generate_zip_script(files)
    /\ gen_files' = files
    /\ run' = RunIdle
    /\ console' = "Generated"
    /\ UNCHANGED <<codecVars, compareVars, scanVars>>

ScriptStart ==
    /\ script_file.exists
    /\ run.pc = "idle"
    /\ run' = RunStarted(script_file.zip_b64)
    /\ console' = "running"
    /\ UNCHANGED <<script_file, gen_files>>
    /\ UNCHANGED <<codecVars, compareVars, scanVars>>

ScriptZipWrite(outcome) ==
    /\ run.pc = "loop"
    /\ run.i <= Len(run.files)
    /\ run' = ZipWriteStep(run, outcome)
    /\ UNCHANGED <<script_file, gen_files, console>>
    /\ UNCHANGED <<codecVars, compareVars, scanVars>>

ScriptReport ==
    /\ run.pc = "loop"
    /\ run.i > Len(run.files)
    /\ run' = [run EXCEPT !.pc = "done", !.reported = run.compressed_successful]
    /\ console' = "Compressed"
    /\ UNCHANGED <<script_file, gen_files>>
    /\ UNCHANGED <<codecVars, compareVars, scanVars>>

ScriptInit ==
    /\ disk = <<>>
    /\ file_list = <<>>
    /\ loaded = NotLoaded
    /\ console = "menu"
    /\ ScriptIdle
    /\ CompareIdle
    /\ ScanIdle

ScriptNext ==
    \/ \E files \in PathLists : GenerateZipScript(files)
    \/ ScriptStart
    \/ \E outcome \in WriteOutcomes : ScriptZipWrite(outcome)
    \/ ScriptReport

SpecScript == ScriptInit /\ [][ScriptNext]_vars

\* the elements of attempted whose call of zipf.write ended as "added"
RECURSIVE Added(_, _)
Added(paths, outs) ==
    IF paths = <<>> THEN <<>>
    ELSE (IF Head(outs) = "added" THEN <<Head(paths)>> ELSE <<>>)
         \o Added(Tail(paths), Tail(outs))

\* C5: the list the script decodes from its payload is the list that was
\* given to generate_zip_script: same elements, same order, same duplicates.
C5_PayloadRoundTrip ==
    run.pc # "idle" => (run.pc # "decode_error" /\ run.files = gen_files)

C5_Witness ==
    /\ run.pc = "done"
    /\ Len(gen_files) = 3
    /\ gen_files[1] = gen_files[3]
    /\ gen_files[1] # gen_files[2]
    /\ gen_files[2] = <<"q", Quote, Backslash>>

\* C6: the script calls zipf.write on the paths of the list in list order;
\* FileNotFoundError never ends the run, the paths after it are still
\* tried, and the count printed at the end is the number of paths added.
C6_SkipMissingAndCount ==
    /\ run.attempted = SubSeq(run.files, 1, Len(run.outcomes))
    /\ run.archive = Added(run.attempted, run.outcomes)
    /\ run.compressed_successful = Len(run.archive)
    /\ run.pc = "crashed" =>
           run.outcomes[Len(run.outcomes)] \notin {"added", "FileNotFoundError"}
    /\ (run.pc = "loop" /\ "OtherError" \notin {run.outcomes[k] : k \in DOMAIN run.outcomes})
           => run.i = Len(run.outcomes) + 1
    /\ run.pc = "done" =>
           /\ run.attempted = run.files
           /\ run.reported = Len(run.archive)

C6_Witness ==
    /\ run.pc = "done"
    /\ run.outcomes = <<"added", "FileNotFoundError", "added">>
    /\ run.reported = 2

----------------------------------------------------------------------------
(* compare_file_lists.                                                     *)

\* OnlyInA with the difference forgotten
OnlyInAAll(set_a, set_b) == set_a

OnlyInA(set_a, set_b) == set_a \ set_b

\* OnlyInB with the difference forgotten
OnlyInBAll(set_a, set_b) == set_b

OnlyInB(set_a, set_b) == set_b \ set_a

InBoth(set_a, set_b) == set_a \cap set_b

\* sum(files[f] for f in S) for a loaded dict of ints
SizeOf(files, S) == Sum([f \in S |-> files.v[f].v], S)

\* BothEntry with A's size written twice
BothEntryOneSize(files_a, files_b, f) ==
    [size_a |-> files_a.v[f].v, size_b |-> files_a.v[f].v]

\* the value of files_in_both for the key f
BothEntry(files_a, files_b, f) ==
    [size_a |-> files_a.v[f].v, size_b |-> files_b.v[f].v]

\* a loaded value on which .keys() and the sums of sizes work
IsDictOfInt(val) ==
    val.ty = "dict" /\ \A k \in DOMAIN val.v : val.v[k].ty = "int"

\* the locals of the try block once both loads have returned dicts of ints
Computed(c, files_a, files_b) ==
    LET set_a == DOMAIN files_a.v
        set_b == DOMAIN files_b.v
        only_a == OnlyInA(set_a, set_b)
        only_b == OnlyInB(set_a, set_b)
        both == InBoth(set_a, set_b)
    IN  [c EXCEPT
           !.computed = TRUE,
           !.only_in_a = only_a,
           !.only_in_b = only_b,
           !.in_both = both,
           !.size_only_a = SizeOf(files_a, only_a),
           !.size_only_b = SizeOf(files_b, only_b),
           !.size_both_a = SizeOf(files_a, both),
           !.size_both_b = SizeOf(files_b, both),
           !.files_only_in_a = [f \in only_a |-> files_a.v[f].v],
           !.files_only_in_b = [f \in only_b |-> files_b.v[f].v],
           !.files_in_both = [f \in both |-> BothEntry(files_a, files_b, f)]]

\* the file at a path: the second load is not reached when the first raises
FileAt(name) == IF name \in DOMAIN disk THEN disk[name] ELSE Absent

\* compare_file_lists up to the call of generate_zip_script, the user
\* typing file_a and file_b; la and lb are what the two loads gave
Compared(file_a, file_b, la, lb) ==
    LET c0 == [NoCompare EXCEPT !.ran = TRUE, !.file_a = file_a, !.file_b = file_b]
        c1 == [c0 EXCEPT !.load_a = la, !.load_b = lb]
    IN  IF file_a = "" \/ file_b = ""
        THEN [c0 EXCEPT !.error = "No file provided"]
        ELSE IF ~la.returned THEN [c1 EXCEPT !.error = la.status]
        ELSE IF ~lb.returned THEN [c1 EXCEPT !.error = lb.status]
        ELSE IF la.files.ty # "dict" \/ lb.files.ty # "dict"
             THEN [c1 EXCEPT !.error = "AttributeError"]
        ELSE IF ~IsDictOfInt(la.files) \/ ~IsDictOfInt(lb.files)
             THEN [c1 EXCEPT !.error = "TypeError"]
        ELSE Computed(c1, la.files, lb.files)

\* the list line 222 hands to generate_zip_script
DifferenceList(c) == sorted(c.only_in_a) \o sorted(c.only_in_b)

\* c is a comparison of the two files of the comparison before it, swapped
Swapped(before, c) ==
    /\ before.computed
    /\ c.computed
    /\ c.file_a = before.file_b
    /\ c.file_b = before.file_a
    /\ c.file_a # c.file_b

CompareFileLists(file_a, file_b) ==
    \E la \in {load_json_filelist(FileAt(file_a))} :
    \E lb \in {IF la.returned THEN load_json_filelist(FileAt(file_b))
                ELSE NotLoaded} :
    \E c \in {Compared(file_a, file_b, la, lb)} :
        /\ cmp' = c
        /\ after_swap' = Swapped(cmp, c)
        /\ IF c.computed
           THEN /\ script_file' = generate_zip_script(DifferenceList(c))
                /\ gen_files' = DifferenceList(c)
                /\ console' = "Generated"
           ELSE /\ UNCHANGED <<script_file, gen_files>>
                /\ console' = c.error
        /\ UNCHANGED <<disk, file_list, loaded, run, scanVars>>

CompareKeys == { <<"x">>, <<"y">>, <<"z">> }

\* the sizes of the files in the tree that list A was scanned from, and in
\* the one list B was scanned from
SizeInA == (<<"x">> :> 10) @@ (<<"y">> :> 20) @@ (<<"z">> :> 7)

SizeInB == (<<"x">> :> 10) @@ (<<"y">> :> 25) @@ (<<"z">> :> 5)

Snapshots(sizes) ==
    {[k \in D |-> sizes[k]] :
       D \in {S \in SUBSET CompareKeys : Cardinality(S) <= MaxFiles}}

\* a manifest file in either shape
Documents(m) == {DumpedFile(m), FileOf(LegacyDocument(m), "legacy", m)}

\* the file a dump leaves when a path of the manifest has no UTF-8 encoding
TruncatedFile == DumpedFile((<<"n", Surrogate>> :> 7))

\* a legacy file of a tree that holds a file named files
LegacyWithFilesKey ==
    FileOf(LegacyDocument((FilesKey :> 3) @@ (<<"x">> :> 10)), "legacy",
           (FilesKey :> 3) @@ (<<"x">> :> 10))

\* inputs on which a load does not return a dict of sizes: nothing typed,
\* the truncated file, the legacy file with the files key, no such file
FailingInputs == {"", "M.json", "F.json", "N.json"}

\* what the user types for A and for B: the two manifest files either way
\* round, and a failing input in the place of A, of B, and of both
CompareInputs ==
    ({"A.json", "B.json"} \X {"A.json", "B.json"})
    \cup (FailingInputs \X {"B.json"})
    \cup ({"A.json"} \X FailingInputs)
    \cup {<<"M.json", "N.json">>}

CompareInit ==
    /\ \E ma \in Snapshots(SizeInA), mb \in Snapshots(SizeInB) :
         \E da \in Documents(ma), db \in Documents(mb) :
            disk = ("A.json" :> da) @@ ("B.json" :> db)
                   @@ ("M.json" :> TruncatedFile) @@ ("F.json" :> LegacyWithFilesKey)
    /\ file_list = <<>>
    /\ loaded = NotLoaded
    /\ console = "menu"
    /\ ScriptIdle
    /\ CompareIdle
    /\ ScanIdle

CompareNext ==
    \E input \in CompareInputs : CompareFileLists(input[1], input[2])

SpecCompare == CompareInit /\ [][CompareNext]_vars

\* the manifests written to the two files of the last comparison
ManifestA == disk[cmp.file_a].mapping

ManifestB == disk[cmp.file_b].mapping

\* C1: only_in_a, only_in_b and in_both are pairwise disjoint, and their
\* union is the union of the key sets of the two manifests compared.
C1_Partition ==
    cmp.computed =>
        /\ cmp.only_in_a \cap cmp.only_in_b = {}
        /\ cmp.only_in_a \cap cmp.in_both = {}
        /\ cmp.only_in_b \cap cmp.in_both = {}
        /\ cmp.only_in_a \cup cmp.only_in_b \cup cmp.in_both
               = DOMAIN ManifestA \cup DOMAIN ManifestB

C1_Witness ==
    /\ cmp.computed
    /\ cmp.only_in_a # {}
    /\ cmp.only_in_b # {}
    /\ cmp.in_both # {}

\* C4: a key of both manifests is in in_both whatever the two sizes are,
\* and its entry of files_in_both holds A's size and B's size; the keys of
\* one manifest alone are the other two sets, with the sizes summed.
C4_MembershipByKey ==
    cmp.computed =>
        /\ cmp.in_both = DOMAIN ManifestA \cap DOMAIN ManifestB
        /\ cmp.only_in_a = DOMAIN ManifestA \ DOMAIN ManifestB
        /\ cmp.only_in_b = DOMAIN ManifestB \ DOMAIN ManifestA
        /\ DOMAIN cmp.files_in_both = cmp.in_both
        /\ \A f \in cmp.in_both :
               cmp.files_in_both[f] = [size_a |-> ManifestA[f], size_b |-> ManifestB[f]]
        /\ cmp.size_only_a = Sum(ManifestA, cmp.only_in_a)
        /\ cmp.size_only_b = Sum(ManifestB, cmp.only_in_b)

\* the scenario A = {x: 10, y: 20}, B = {y: 25, z: 5}
C4_Witness ==
    /\ cmp.computed
    /\ ManifestA = (<<"x">> :> 10) @@ (<<"y">> :> 20)
    /\ ManifestB = (<<"y">> :> 25) @@ (<<"z">> :> 5)
    /\ cmp.only_in_a = {<<"x">>} /\ cmp.size_only_a = 10
    /\ cmp.only_in_b = {<<"z">>} /\ cmp.size_only_b = 5
    /\ cmp.in_both = {<<"y">>}
    /\ cmp.files_in_both[<<"y">>] = [size_a |-> 20, size_b |-> 25]

\* C9: when a comparison of (B, A) follows a comparison of (A, B), its
\* only_in_a is the earlier only_in_b and its only_in_b the earlier
\* only_in_a.
C9_Symmetry ==
    [][(/\ cmp.computed
        /\ cmp'.computed
        /\ cmp'.file_a = cmp.file_b
        /\ cmp'.file_b = cmp.file_a)
           => /\ cmp'.only_in_a = cmp.only_in_b
              /\ cmp'.only_in_b = cmp.only_in_a]_vars

C9_Witness ==
    /\ after_swap
    /\ cmp.only_in_a # {}
    /\ cmp.only_in_b # {}
    /\ cmp.in_both # {}
    /\ cmp.only_in_a # cmp.only_in_b

LoadFailed(l) == l.status \in {"FileNotFoundError", "JSONDecodeError"}

ReturnedNothingIfFailed(l) ==
    LoadFailed(l) => (~l.returned /\ l.files.ty = "none" /\ DOMAIN l.metadata = {})

\* C10: a load of the malformed file raises JSONDecodeError; a load that
\* raises returns nothing, no part of a manifest either; and a call of
\* compare_file_lists in which a load raises computes no comparison and
\* leaves the script file as it was.
C10_FailedLoad ==
    [][/\ (cmp'.file_a = "M.json" /\ cmp'.file_b # "")
              => cmp'.load_a.status = "JSONDecodeError"
       /\ (cmp'.file_b = "M.json" /\ cmp'.load_a.returned)
              => cmp'.load_b.status = "JSONDecodeError"
       /\ ReturnedNothingIfFailed(cmp'.load_a)
       /\ ReturnedNothingIfFailed(cmp'.load_b)
       /\ (LoadFailed(cmp'.load_a) \/ LoadFailed(cmp'.load_b))
              => /\ ~cmp'.computed
                 /\ cmp'.files_only_in_a = <<>>
                 /\ cmp'.files_only_in_b = <<>>
                 /\ cmp'.files_in_both = <<>>
                 /\ script_file' = script_file]_vars

C10_Witness ==
    /\ cmp.file_a = "A.json"
    /\ cmp.file_b = "M.json"
    /\ cmp.load_a.returned
    /\ cmp.load_b.status = "JSONDecodeError"
    /\ ~cmp.computed
    /\ script_file.exists

----------------------------------------------------------------------------
(* scan_directory.  A file of the tree is the sequence of the names on the *)
(* way from the root to it, the last one its own; tree.sep is os.sep, and  *)
(* tree.denied are the files whose stat() raises OSError.  scan.stack are  *)
(* the directories os.walk has still to list, the next one first, and      *)
(* scan.pending the files of the listed directory not yet looked at.       *)

NameA == <<"a">>

NameB == <<"b">>

NameC == <<"c">>

NameD == <<"d">>

\* names that hold a backslash, which a POSIX file system allows
NameAB == <<"a", Backslash, "b">>

NameBC == <<"b", Backslash, "c">>

TreeUniverse ==
    { <<NameAB, NameC>>, <<NameA, NameB, NameC>>, <<NameA, NameBC>>, <<NameD>> }

\* st_size of each file
FileSize ==
    (<<NameAB, NameC>> :> 11) @@ (<<NameA, NameB, NameC>> :> 22)
    @@ (<<NameA, NameBC>> :> 33) @@ (<<NameD>> :> 44)

HasBackslash(f) == \E i \in 1..Len(f) : \E j \in 1..Len(f[i]) : f[i][j] = Backslash

\* the trees scanned: on Windows (os.sep a backslash) no name holds one
Trees ==
    { [root |-> "dir", sep |-> sep, files |-> fs, denied |-> dn] :
        sep \in {"/", Backslash},
        fs \in {S \in SUBSET TreeUniverse : Cardinality(S) <= MaxTreeFiles},
        dn \in SUBSET TreeUniverse }

WellFormedTree(t) ==
    /\ t.denied \subseteq t.files
    /\ t.sep = Backslash => \A f \in t.files : ~HasBackslash(f)

\* str(rel_path): the names joined by os.sep
RECURSIVE JoinPath(_, _)
JoinPath(f, sep) ==
    IF Len(f) = 1 THEN f[1]
    ELSE f[1] \o <<sep>> \o JoinPath(Tail(f), sep)

\* str.replace('\\', '/')
ReplaceBackslash(s) == [i \in 1..Len(s) |-> IF s[i] = Backslash THEN "/" ELSE s[i]]

\* rel_path_str of lines 62 to 64
rel_path_str(f, sep) == ReplaceBackslash(JoinPath(f, sep))

IsPrefix(d, f) == Len(d) <= Len(f) /\ SubSeq(f, 1, Len(d)) = d

\* what os.scandir(d) lists: the files in d, and the directories in it
FilesIn(t, d) == {f \in t.files : Len(f) = Len(d) + 1 /\ IsPrefix(d, f)}

DirsIn(t, d) ==
    {SubSeq(f, 1, Len(d) + 1) : f \in {g \in t.files : Len(g) > Len(d) + 1 /\ IsPrefix(d, g)}}

\* the orders a set can be listed in
Orders(S) ==
    {o \in [1..Cardinality(S) -> S] : \A i, j \in DOMAIN o : o[i] = o[j] => i = j}

\* file_list_after with the entry made before stat() is called
file_list_after_eager(fl, t, f) ==
    [k \in DOMAIN fl \cup {rel_path_str(f, t.sep)} |->
       IF k = rel_path_str(f, t.sep)
       THEN (IF f \in t.denied THEN 0 ELSE FileSize[f])
       ELSE fl[k]]

\* the body of the try block for the file f: the dict after it
file_list_after(fl, t, f) ==
    IF f \in t.denied THEN fl
    ELSE [k \in DOMAIN fl \cup {rel_path_str(f, t.sep)} |->
            IF k = rel_path_str(f, t.sep) THEN FileSize[f] ELSE fl[k]]

\* the warnings printed so far, after the except clause for the file f
warnings_after(w, t, f) == IF f \in t.denied THEN Append(w, f) ELSE w

\* lines 49 to 55: the checks of the directory, and the empty dict
ScanStart ==
    /\ scan.pc \in {"idle", "done"}
    /\ Len(scan_results) < 2
    /\ scan' = IF tree.root = "missing"
               THEN [ScanNotStarted EXCEPT !.pc = "FileNotFoundError"]
               ELSE IF tree.root = "file"
               THEN [ScanNotStarted EXCEPT !.pc = "NotADirectoryError"]
               ELSE [ScanNotStarted EXCEPT !.pc = "walk", !.stack = << <<>> >>]
    /\ file_list' = <<>>
    /\ console' = "Scanning"
    /\ UNCHANGED <<tree, scan_results, disk, loaded, scriptVars, compareVars>>

\* os.walk yields the next directory: its files are to be looked at, and
\* its directories are walked next, in the order os.scandir listed them
WalkDirectory ==
    /\ scan.pc = "walk"
    /\ scan.pending = {}
    /\ scan.stack # <<>>
    /\ \E order \in Orders(DirsIn(tree, Head(scan.stack))) :
           scan' = [scan EXCEPT !.pending = FilesIn(tree, Head(scan.stack)),
                                !.stack = order \o Tail(scan.stack)]
    /\ UNCHANGED <<tree, scan_results, file_list, console, disk, loaded,
                   scriptVars, compareVars>>

\* one pass of the inner loop, on the file f of the listed directory
VisitFile(f) ==
    /\ scan.pc = "walk"
    /\ f \in scan.pending
    /\ file_list' = file_list_after(file_list, tree, f)
    /\ scan' = [scan EXCEPT !.pending = @ \ {f},
                            !.warnings = warnings_after(@, tree, f)]
    /\ console' = IF f \in tree.denied THEN "Warning: Could not access" ELSE console
    /\ UNCHANGED <<tree, scan_results, disk, loaded, scriptVars, compareVars>>

\* line 70: the walk is over
ScanReturn ==
    /\ scan.pc = "walk"
    /\ scan.pending = {}
    /\ scan.stack = <<>>
    /\ scan' = [scan EXCEPT !.pc = "done"]
    /\ scan_results' = Append(scan_results, file_list)
    /\ UNCHANGED <<tree, file_list, console, disk, loaded, scriptVars, compareVars>>

ScanInit ==
    /\ tree \in {t \in Trees : WellFormedTree(t)}
                \cup {[NoTree EXCEPT !.root = r] : r \in {"missing", "file"}}
    /\ scan = ScanNotStarted
    /\ scan_results = <<>>
    /\ disk = <<>>
    /\ file_list = <<>>
    /\ loaded = NotLoaded
    /\ console = "menu"
    /\ ScriptIdle
    /\ CompareIdle

ScanNext ==
    \/ ScanStart
    \/ WalkDirectory
    \/ \E f \in TreeUniverse : VisitFile(f)
    \/ ScanReturn

SpecScan == ScanInit /\ [][ScanNext]_vars

Accessible == tree.files \ tree.denied

\* C7: a file whose stat fails does not end the scan; the scan returns a
\* manifest with the key of every file that could be read, every entry of
\* it comes from such a file, and each file that could not be read has
\* exactly one warning.
C7_PartialScan ==
    /\ tree.root = "dir" => scan.pc \in {"idle", "walk", "done"}
    /\ scan.pc = "done" =>
           /\ \A g \in Accessible : rel_path_str(g, tree.sep) \in DOMAIN file_list
           /\ \A k \in DOMAIN file_list :
                  \E g \in Accessible :
                      rel_path_str(g, tree.sep) = k /\ file_list[k] = FileSize[g]
           /\ Len(scan.warnings) = Cardinality(tree.denied)
           /\ {scan.warnings[i] : i \in DOMAIN scan.warnings} = tree.denied
           /\ scan_results[Len(scan_results)] = file_list

\* one file of three cannot be read
C7_Witness ==
    /\ scan.pc = "done"
    /\ Cardinality(tree.files) = 3
    /\ Cardinality(tree.denied) = 1
    /\ Len(scan.warnings) = 1
    /\ Cardinality(DOMAIN file_list) = 2

\* C8: two scans of the same unchanged tree return the same manifest,
\* whatever order each walk lists directories and files in.
C8_ScanDeterministic ==
    Len(scan_results) = 2 => scan_results[1] = scan_results[2]

\* C11: when every file can be read, the manifest a scan returns has one
\* entry per file of the tree: two files never share a key, there are as
\* many entries as files, and the entry of a file holds that file's size.
C11_OneEntryPerFile ==
    (scan.pc = "done" /\ tree.denied = {}) =>
        /\ \A f, g \in tree.files :
               rel_path_str(f, tree.sep) = rel_path_str(g, tree.sep) => f = g
        /\ Cardinality(DOMAIN file_list) = Cardinality(tree.files)
        /\ \A f \in tree.files :
               /\ rel_path_str(f, tree.sep) \in DOMAIN file_list
               /\ file_list[rel_path_str(f, tree.sep)] = FileSize[f]

----------------------------------------------------------------------------
(* The codec: one manifest file, dumped and loaded.                        *)

OutputFile == "filelist.json"

CodecKeys ==
    { <<"x">>, <<"a", "/", "b">>, FilesKey, <<"q", Quote, Backslash>>,
      <<"n", EAcute>>, <<"n", Surrogate>> }

CodecSizes == {0, 7}

CodecInit ==
    /\ disk \in [{OutputFile} ->
                   {Absent} \cup {FileOf(LegacyDocument(m), "legacy", m) :
                                    m \in Manifests(CodecKeys, CodecSizes)}]
    /\ file_list = <<>>
    /\ loaded = NotLoaded
    /\ console = "menu"
    /\ ScriptIdle
    /\ CompareIdle
    /\ ScanIdle

\* dump_directory_to_json, from the manifest m its scan returned
DumpDirectoryToJson(m) ==
    /\ file_list' = m
    /\ disk' = [disk EXCEPT ![OutputFile] = DumpedFile(m)]
    /\ console' = IF DumpComplete(m) THEN "Saved" ELSE "Error: UnicodeEncodeError"
    /\ loaded' = NotLoaded
    /\ UNCHANGED <<scriptVars, compareVars, scanVars>>

\* a call of load_json_filelist on the manifest file
LoadJsonFilelist ==
    /\ loaded' = load_json_filelist(disk[OutputFile])
    /\ console' = "loaded"
    /\ UNCHANGED <<disk, file_list>>
    /\ UNCHANGED <<scriptVars, compareVars, scanVars>>

CodecNext ==
    \/ \E m \in Manifests(CodecKeys, CodecSizes) : DumpDirectoryToJson(m)
    \/ LoadJsonFilelist

SpecCodec == CodecInit /\ [][CodecNext]_vars

\* C2: a load of a legacy file (a bare path-to-size mapping) returns the
\* mapping as the manifest, with empty metadata.
C2_LegacyIdentity ==
    (disk[OutputFile].writer = "legacy" /\ loaded.status # "none")
        => /\ loaded.returned
           /\ IsManifest(loaded.files, disk[OutputFile].mapping)
           /\ loaded.metadata = <<>>

\* C3: a load of the document a dump wrote returns the dumped manifest.
C3_RoundTrip ==
    (disk[OutputFile].writer = "dump" /\ loaded.status # "none")
        => /\ loaded.returned
           /\ IsManifest(loaded.files, file_list)

====
